---- MODULE Spec2Model ----
(***************************************************************************)
(* Model of wyoming_openai/preprocessing.py: the text filters that prepare *)
(* a string for speech synthesis and the pipeline that composes them.      *)
(*                                                                         *)
(* A text is a sequence of Unicode code points (naturals).  Every filter   *)
(* is a pure function, modelled as an operator that computes what the      *)
(* Python code computes: re.sub as a left-to-right scan for non-overlapping*)
(* matches, each pattern by its own matcher (greedy, with the backtracking *)
(* the pattern allows), str.replace as a literal left-to-right scan.       *)
(* Each specification draws a call's arguments in Init and has one action, *)
(* the call.                                                               *)
(***************************************************************************)
EXTENDS Integers, Sequences, FiniteSets

VARIABLES
    text,                   \* argument: the input text
    remove_emoji,           \* argument of preprocess_for_tts
    remove_md,              \* argument of preprocess_for_tts
    remove_brackets_quotes, \* argument of preprocess_for_tts
    custom_replacements,    \* argument: [present, items]; items is the dict
                            \* as the sequence of its <<old, new>> pairs in
                            \* enumeration (insertion) order
    normalize_pause,        \* argument of preprocess_for_tts
    pc,                     \* "ready", then the name of the function that ran
    result,                 \* the returned text
    logged                  \* whether _LOGGER.debug was called

vars == <<text, remove_emoji, remove_md, remove_brackets_quotes,
          custom_replacements, normalize_pause, pc, result, logged>>

----------------------------------------------------------------------------
(* Bounds of the checked input sets. *)

MaxEmojiLen == 6
MaxBracketLen == 3
MaxMdLen == 6
MaxReplLen == 3
MaxPauseLen == 5
MaxPipeLen == 3

----------------------------------------------------------------------------
(* Code points the patterns name. *)

LF == 10
SPACE == 32
ASTERISK == 42
COMMA == 44
PERIOD == 46
TILDE == 126
BACKTICK == 96
HASH == 35

\* The characters of the negative lookbehind [.!?,;:]
Punctuation == {46, 33, 63, 44, 59, 58}

\* The ranges of emoji_pattern's character class
IsEmoji(c) ==
    \/ c \in 128512..128591    \* U+1F600-U+1F64F
    \/ c \in 127744..128511    \* U+1F300-U+1F5FF
    \/ c \in 128640..128767    \* U+1F680-U+1F6FF
    \/ c \in 127456..127487    \* U+1F1E0-U+1F1FF
    \/ c \in 9986..10160       \* U+2702-U+27B0
    \/ c \in 9410..127569      \* U+24C2-U+1F251
    \/ c \in 129280..129535    \* U+1F900-U+1F9FF
    \/ c \in 129536..129647    \* U+1FA00-U+1FA6F
    \/ c \in 129648..129791    \* U+1FA70-U+1FAFF

\* What \s matches in a str pattern, and what str.strip() strips
IsSpace(c) ==
    \/ c \in 9..13
    \/ c \in 28..32
    \/ c \in {133, 160, 5760, 8232, 8233, 8239, 8287, 12288}
    \/ c \in 8192..8202

Max(S) == CHOOSE x \in S : \A y \in S : y <= x
Min(S) == CHOOSE x \in S : \A y \in S : x <= y

\* The element of a one-element set.  {F(t) : t \in {e}} binds t to the value
\* of e before F is evaluated, as an assignment text = e does.
Value(S) == CHOOSE x \in S : TRUE

\* All texts over an alphabet, up to a length
TextsOver(alphabet, n) == UNION {[1..k -> alphabet] : k \in 0..n}

\* Last index of the longest run of characters in class C starting at i
\* (i-1 when s[i] is not in the class): a greedy C*
RunEnd(s, i, C) ==
    Min({j \in i..Len(s) : s[j] \notin C} \cup {Len(s) + 1}) - 1

Chars(s) == {s[j] : j \in 1..Len(s)}
EmojiIn(s) == {c \in Chars(s) : IsEmoji(c)}
SpaceIn(s) == {c \in Chars(s) : IsSpace(c)}

----------------------------------------------------------------------------
(* remove_emojis *)

\* Pass 1: (?<![.!?,;:]) [emoji]+ \s* (?=\n) at position i.  The emoji run is
\* greedy, then the whitespace run is greedy; each gives characters back
\* until a line feed follows.  0 when there is no match at i, else the index
\* of the last character matched.
Pass1MatchEnd(s, i) ==
    IF i > 1 /\ s[i - 1] \in Punctuation THEN 0
    ELSE LET eEnd == RunEnd(s, i, EmojiIn(s))
             SpEnds(k) == {p \in k..RunEnd(s, k + 1, SpaceIn(s)) :
                              p < Len(s) /\ s[p + 1] = LF}
             ks == {k \in i..eEnd : SpEnds(k) # {}}
         IN  IF ks = {} THEN 0 ELSE Max(SpEnds(Max(ks)))

\* Pass 2: [emoji]+ at position i
EmojiRunMatchEnd(s, i) ==
    LET eEnd == RunEnd(s, i, EmojiIn(s)) IN IF eEnd >= i THEN eEnd ELSE 0


----------------------------------------------------------------------------
(* remove_markdown: the matchers of its six patterns *)

\* d{n} ([^d]+) d{n} at position i, d a delimiter character: the content is
\* the longest run of characters other than d, and is not empty.  Giving
\* content characters back cannot help, since the character after a shorter
\* content is not d.
DelimMatchEnd(s, i, d, n) ==
    IF i + n - 1 <= Len(s) /\ \A j \in i..(i + n - 1) : s[j] = d
    THEN LET cEnd == RunEnd(s, i + n, Chars(s) \ {d})
         IN  IF /\ cEnd >= i + n
                /\ cEnd + n <= Len(s)
                /\ \A j \in (cEnd + 1)..(cEnd + n) : s[j] = d
             THEN cEnd + n
             ELSE 0
    ELSE 0

\* \*\*([^*]+)\*\*
BoldMatchEnd(s, i) == DelimMatchEnd(s, i, ASTERISK, 2)

\* Mutant of ItalicMatchEnd: \*([^*]*)\*, a span that may be empty
ItalicMatchEndEmptySpan(s, i) ==
    IF s[i] = ASTERISK
    THEN LET cEnd == RunEnd(s, i + 1, Chars(s) \ {ASTERISK})
         IN  IF cEnd + 1 <= Len(s) /\ s[cEnd + 1] = ASTERISK
             THEN cEnd + 1
             ELSE 0
    ELSE 0

\* \*([^*]+)\*
ItalicMatchEnd(s, i) == DelimMatchEnd(s, i, ASTERISK, 1)

\* ~~([^~]+)~~
StrikeMatchEnd(s, i) == DelimMatchEnd(s, i, TILDE, 2)

\* `([^`]+)`
CodeMatchEnd(s, i) == DelimMatchEnd(s, i, BACKTICK, 1)

\* ^#+\s+ with re.MULTILINE: ^ is the start of the text or just after a
\* line feed
HeaderMatchEnd(s, i) ==
    IF i = 1 \/ s[i - 1] = LF
    THEN LET hEnd == RunEnd(s, i, {HASH})
             spEnd == RunEnd(s, hEnd + 1, SpaceIn(s))
         IN  IF hEnd >= i /\ spEnd > hEnd THEN spEnd ELSE 0
    ELSE 0

\* Last index of X in \[([^\]]+)\]\([^\)]+\) at position i, 0 if X is empty
LinkTextEnd(s, i) ==
    IF s[i] = 91
    THEN LET xEnd == RunEnd(s, i + 1, Chars(s) \ {93})
         IN  IF xEnd >= i + 1 THEN xEnd ELSE 0
    ELSE 0

\* \[([^\]]+)\]\([^\)]+\)
LinkMatchEnd(s, i) ==
    LET xEnd == LinkTextEnd(s, i)
    IN  IF xEnd > 0 /\ xEnd + 2 <= Len(s) /\ s[xEnd + 1] = 93 /\ s[xEnd + 2] = 40
        THEN LET yEnd == RunEnd(s, xEnd + 3, Chars(s) \ {41})
             IN  IF yEnd >= xEnd + 3 /\ yEnd + 1 <= Len(s) /\ s[yEnd + 1] = 41
                 THEN yEnd + 1
                 ELSE 0
        ELSE 0

----------------------------------------------------------------------------
(* remove_brackets_and_quotes, normalize_pauses: the matchers *)

\* [\(\)\[\]\{\}<>]
BracketChars == {40, 41, 91, 93, 123, 125, 60, 62}

\* ["""\'\'\'`«»] as the source file spells it: the ASCII double quote three
\* times, the ASCII apostrophe three times, the backtick and the guillemets
QuoteChars == {34, 34, 34, 39, 39, 39, 96, 171, 187}

BracketMatchEnd(s, i) == IF s[i] \in BracketChars THEN i ELSE 0

QuoteMatchEnd(s, i) == IF s[i] \in QuoteChars THEN i ELSE 0

\* Mutant of SpacesMatchEnd: \s, one whitespace character per match
OneSpaceMatchEnd(s, i) == IF IsSpace(s[i]) THEN i ELSE 0

\* \s+
SpacesMatchEnd(s, i) ==
    LET spEnd == RunEnd(s, i, SpaceIn(s)) IN IF spEnd >= i THEN spEnd ELSE 0

----------------------------------------------------------------------------
(* re.sub *)

\* The match of pattern p at position i of s: its last index, or 0
MatchEnd(p, s, i) ==
    CASE p = "pass1"   -> Pass1MatchEnd(s, i)
      [] p = "emoji"   -> EmojiRunMatchEnd(s, i)
      [] p = "bold"    -> BoldMatchEnd(s, i)
      [] p = "italic"  -> ItalicMatchEnd(s, i)
      [] p = "strike"  -> StrikeMatchEnd(s, i)
      [] p = "code"    -> CodeMatchEnd(s, i)
      [] p = "header"  -> HeaderMatchEnd(s, i)
      [] p = "link"    -> LinkMatchEnd(s, i)
      [] p = "bracket" -> BracketMatchEnd(s, i)
      [] p = "quote"   -> QuoteMatchEnd(s, i)
      [] p = "spaces"  -> SpacesMatchEnd(s, i)

\* What the call substitutes for the match s[i..e] of pattern p
Replacement(p, s, i, e) ==
    CASE p = "pass1"   -> <<PERIOD>>
      [] p = "emoji"   -> <<>>
      [] p = "bold"    -> SubSeq(s, i + 2, e - 2)
      [] p = "italic"  -> SubSeq(s, i + 1, e - 1)
      [] p = "strike"  -> SubSeq(s, i + 2, e - 2)
      [] p = "code"    -> SubSeq(s, i + 1, e - 1)
      [] p = "header"  -> <<>>
      [] p = "link"    -> SubSeq(s, i + 1, LinkTextEnd(s, i))
      [] p = "bracket" -> <<>>
      [] p = "quote"   -> <<>>
      [] p = "spaces"  -> <<SPACE>>

\* The first position from i on where pattern p matches, 0 if there is none:
\* the search of the regex engine, leftmost match first
Search(p, s, i) ==
    LET starts == {j \in i..Len(s) : MatchEnd(p, s, j) # 0}
    IN  IF starts = {} THEN 0 ELSE Min(starts)

\* The matches re.sub finds from position i on, the search resuming after
\* each match; a set of <<first, last>> index pairs
RECURSIVE FindFrom(_, _, _)
FindFrom(p, s, i) ==
    LET b == Search(p, s, i)
    IN  IF b = 0 THEN {}
        ELSE {<<b, MatchEnd(p, s, b)>>} \cup FindFrom(p, s, MatchEnd(p, s, b) + 1)

finditer(p, s) == FindFrom(p, s, 1)

\* The text from position i on with every match replaced
RECURSIVE SubFrom(_, _, _)
SubFrom(p, s, i) ==
    LET b == Search(p, s, i)
    IN  IF b = 0 THEN SubSeq(s, i, Len(s))
        ELSE SubSeq(s, i, b - 1)
               \o Replacement(p, s, b, MatchEnd(p, s, b))
               \o SubFrom(p, s, MatchEnd(p, s, b) + 1)

re_sub(p, s) == SubFrom(p, s, 1)

\* text = re.sub(ps[k], ..., text) for the patterns of ps from the k-th on,
\* one statement after the other
RECURSIVE SubEach(_, _, _)
SubEach(ps, s, k) ==
    IF k > Len(ps) THEN s
    ELSE Value({SubEach(ps, t, k + 1) : t \in {re_sub(ps[k], s)}})

----------------------------------------------------------------------------
(* str.replace and str.strip *)

IsAt(s, i, old) ==
    /\ i + Len(old) - 1 <= Len(s)
    /\ \A j \in 1..Len(old) : s[i + j - 1] = old[j]

\* s[i..].replace(old, new) for a non-empty old: occurrences are taken left
\* to right and do not overlap; the text substituted is not scanned again
RECURSIVE ReplaceFrom(_, _, _, _)
ReplaceFrom(s, i, old, new) ==
    LET occ == {j \in i..Len(s) : IsAt(s, j, old)}
    IN  IF occ = {} THEN SubSeq(s, i, Len(s))
        ELSE SubSeq(s, i, Min(occ) - 1) \o new
               \o ReplaceFrom(s, Min(occ) + Len(old), old, new)

\* An empty old matches before every character and at the end: new, then
\* each character of s followed by new
Interleave(s, new) ==
    LET m == Len(new)
    IN  [k \in 1..((Len(s) + 1) * m + Len(s)) |->
            IF (k - 1) % (m + 1) < m
            THEN new[((k - 1) % (m + 1)) + 1]
            ELSE s[((k - 1) \div (m + 1)) + 1]]

str_replace(s, old, new) ==
    IF old = <<>> THEN Interleave(s, new) ELSE ReplaceFrom(s, 1, old, new)

\* Index of the first character that is not whitespace, Len(s)+1 if none
FirstNonSpace(s) == Min({k \in 1..Len(s) : ~IsSpace(s[k])} \cup {Len(s) + 1})

\* Index of the last character that is not whitespace, 0 if none
LastNonSpace(s) == Max({k \in 1..Len(s) : ~IsSpace(s[k])} \cup {0})

str_strip(s) == SubSeq(s, FirstNonSpace(s), LastNonSpace(s))

----------------------------------------------------------------------------
(* The five filters *)

remove_emojis(s) == SubEach(<<"pass1", "emoji">>, s, 1)

remove_brackets_and_quotes(s) == SubEach(<<"bracket", "quote">>, s, 1)

\* The six substitutions in the order of the code
MarkdownRules == <<"bold", "italic", "strike", "code", "header", "link">>

remove_markdown(s) == SubEach(MarkdownRules, s, 1)

\* Mutant of ReplaceAll: the pairs are taken last first
RECURSIVE ReplaceAllLastFirst(_, _, _)
ReplaceAllLastFirst(s, items, k) ==
    IF k > Len(items) THEN s
    ELSE Value({str_replace(t, items[k][1], items[k][2]) :
                   t \in {ReplaceAllLastFirst(s, items, k + 1)}})

\* for old, new in replacements.items(): text = text.replace(old, new),
\* from the k-th pair on
RECURSIVE ReplaceAll(_, _, _)
ReplaceAll(s, items, k) ==
    IF k > Len(items) THEN s
    ELSE Value({ReplaceAll(t, items, k + 1) :
                   t \in {str_replace(s, items[k][1], items[k][2])}})

\* "not replacements" is true of None and of the empty dict
IsFalsy(replacements) == ~replacements.present \/ replacements.items = <<>>

apply_custom_replacements(s, replacements) ==
    IF IsFalsy(replacements) THEN s ELSE ReplaceAll(s, replacements.items, 1)

normalize_pauses(s) ==
    str_strip(re_sub("spaces", str_replace(s, <<PERIOD, PERIOD, PERIOD>>, <<COMMA>>)))


----------------------------------------------------------------------------
(* preprocess_for_tts *)

\* The module's table, in the order the dict literal lists its entries:
\* "API", "EUR", "JPY", "USD", "URL", "PDF", "CSV", ".md", ".txt", ".json",
\* "~", "etc.", "e.g.", "i.e."
DEFAULT_REPLACEMENTS ==
    <<
       <<<<65, 80, 73>>, <<65, 32, 80, 32, 73>>>>,
       <<<<69, 85, 82>>, <<69, 117, 114, 111>>>>,
       <<<<74, 80, 89>>, <<89, 101, 110>>>>,
       <<<<85, 83, 68>>, <<68, 111, 108, 108, 97, 114>>>>,
       <<<<85, 82, 76>>, <<85, 32, 82, 32, 76>>>>,
       <<<<80, 68, 70>>, <<80, 32, 68, 32, 70>>>>,
       <<<<67, 83, 86>>, <<67, 32, 83, 32, 86>>>>,
       <<<<46, 109, 100>>, <<32, 77, 32, 68>>>>,
       <<<<46, 116, 120, 116>>, <<32, 84, 32, 88, 32, 84>>>>,
       <<<<46, 106, 115, 111, 110>>, <<32, 74, 83, 79, 78>>>>,
       <<<<126>>, <<>>>>,
       <<<<101, 116, 99, 46>>, <<101, 116, 32, 99, 101, 116, 101, 114, 97>>>>,
       <<<<101, 46, 103, 46>>, <<102, 111, 114, 32, 101, 120, 97, 109, 112, 108, 101>>>>,
       <<<<105, 46, 101, 46>>, <<116, 104, 97, 116, 32, 105, 115>>>>
    >>

\* Mutant of preprocess_for_tts: the bracket stage before the markdown stage
preprocess_for_tts_brackets_first(s, re, md, bq, cr, np) ==
    Value(
      { IF np THEN normalize_pauses(t4) ELSE t4 :
          t4 \in { IF ~IsFalsy(cr) THEN apply_custom_replacements(t3, cr) ELSE t3 :
            t3 \in { IF md THEN remove_markdown(t2) ELSE t2 :
              t2 \in { IF bq THEN remove_brackets_and_quotes(t1) ELSE t1 :
                t1 \in { IF re THEN remove_emojis(s) ELSE s } } } } })

\* Mutant of preprocess_for_tts: custom_replacements=None falls back on
\* DEFAULT_REPLACEMENTS
preprocess_for_tts_default_table(s, re, md, bq, cr, np) ==
    Value(
      { IF np THEN normalize_pauses(t4) ELSE t4 :
          t4 \in { apply_custom_replacements(t3,
                      IF cr.present THEN cr
                      ELSE [present |-> TRUE, items |-> DEFAULT_REPLACEMENTS]) :
            t3 \in { IF bq THEN remove_brackets_and_quotes(t2) ELSE t2 :
              t2 \in { IF md THEN remove_markdown(t1) ELSE t1 :
                t1 \in { IF re THEN remove_emojis(s) ELSE s } } } } })

\* The text preprocess_for_tts returns: t1 .. t5 are the values of the
\* variable text after each of the five if statements
preprocess_for_tts(s, re, md, bq, cr, np) ==
    Value(
      { IF np THEN normalize_pauses(t4) ELSE t4 :
          t4 \in { IF ~IsFalsy(cr) THEN apply_custom_replacements(t3, cr) ELSE t3 :
            t3 \in { IF bq THEN remove_brackets_and_quotes(t2) ELSE t2 :
              t2 \in { IF md THEN remove_markdown(t1) ELSE t1 :
                t1 \in { IF re THEN remove_emojis(s) ELSE s } } } } })

\* if text != original_text: _LOGGER.debug(...)
DebugLogged(original_text, out) == out # original_text

None == [present |-> FALSE, items |-> <<>>]
Dict(items) == [present |-> TRUE, items |-> items]

----------------------------------------------------------------------------
(* The calls.  Init draws the arguments; one action applies the function. *)

\* The keyword defaults of preprocess_for_tts
Defaults ==
    /\ remove_emoji = TRUE
    /\ remove_md = TRUE
    /\ remove_brackets_quotes = TRUE
    /\ custom_replacements = None
    /\ normalize_pause = TRUE

Ready == pc = "ready" /\ result = <<>> /\ logged = FALSE

Args == <<text, remove_emoji, remove_md, remove_brackets_quotes,
          custom_replacements, normalize_pause>>

\* A call of a filter: it returns a text and logs nothing
Returns(fn, out) ==
    /\ pc = "ready"
    /\ pc' = fn
    /\ result' = out
    /\ UNCHANGED <<Args, logged>>

CallRemoveEmojis == Returns("remove_emojis", remove_emojis(text))

CallRemoveBracketsAndQuotes ==
    Returns("remove_brackets_and_quotes", remove_brackets_and_quotes(text))

CallRemoveMarkdown == Returns("remove_markdown", remove_markdown(text))

CallApplyCustomReplacements ==
    Returns("apply_custom_replacements",
            apply_custom_replacements(text, custom_replacements))

CallNormalizePauses == Returns("normalize_pauses", normalize_pauses(text))

CallPreprocessForTts ==
    /\ pc = "ready"
    /\ pc' = "preprocess_for_tts"
    /\ result' = preprocess_for_tts(text, remove_emoji, remove_md,
                                    remove_brackets_quotes, custom_replacements,
                                    normalize_pause)
    /\ logged' = DebugLogged(text, result')
    /\ UNCHANGED Args

\* 'a', '!', a party popper (U+1F389), line feed, space
EmojiAlphabet == {97, 33, 127881, 10, 32}

InitEmoji ==
    /\ text \in TextsOver(EmojiAlphabet, MaxEmojiLen)
    /\ Defaults /\ Ready

SpecEmoji == InitEmoji /\ [][CallRemoveEmojis]_vars

\* Every bracket and quotation mark the docstring of
\* remove_brackets_and_quotes lists, in its ASCII and typographic forms, and 'a'
BracketAlphabet ==
    {40, 41, 91, 93, 123, 125, 60, 62, 34, 8220, 8221, 39, 8216, 8217, 96,
     171, 187, 97}

InitBrackets ==
    /\ text \in TextsOver(BracketAlphabet, MaxBracketLen)
    /\ Defaults /\ Ready

SpecBrackets == InitBrackets /\ [][CallRemoveBracketsAndQuotes]_vars

\* '*', 'a', '~', '`'
MarkdownAlphabet == {42, 97, 126, 96}

InitMarkdown ==
    /\ text \in TextsOver(MarkdownAlphabet, MaxMdLen)
    /\ Defaults /\ Ready

SpecMarkdown == InitMarkdown /\ [][CallRemoveMarkdown]_vars

\* 'A', 'B', 'C'
ReplAlphabet == {65, 66, 67}
ReplKeys == {<<>>, <<65>>, <<66>>, <<65, 66>>}
ReplValues == {<<>>, <<65>>, <<66>>, <<67>>}
MaxPairs == 2

\* The dicts of at most MaxPairs entries: the keys of a dict are distinct
ReplDicts ==
    {items \in UNION {[1..k -> ReplKeys \X ReplValues] : k \in 0..MaxPairs} :
        \A i, j \in 1..Len(items) : i # j => items[i][1] # items[j][1]}

InitRepl ==
    /\ text \in TextsOver(ReplAlphabet, MaxReplLen)
    /\ custom_replacements \in {None} \cup {Dict(items) : items \in ReplDicts}
    /\ remove_emoji = TRUE /\ remove_md = TRUE
    /\ remove_brackets_quotes = TRUE /\ normalize_pause = TRUE
    /\ Ready

SpecRepl == InitRepl /\ [][CallApplyCustomReplacements]_vars

\* '.', ',', 'a', space, line feed, tab
PauseAlphabet == {46, 44, 97, 32, 10, 9}

\* "Wait...   done"
PauseExample ==
    <<87, 97, 105, 116, 46, 46, 46, 32, 32, 32, 100, 111, 110, 101>>

InitPauses ==
    /\ text \in TextsOver(PauseAlphabet, MaxPauseLen) \cup {PauseExample}
    /\ Defaults /\ Ready

SpecPauses == InitPauses /\ [][CallNormalizePauses]_vars

\* "**Hello** world! <U+1F40D> Check API docs...", the docstring's example input
DocExample ==
    <<42, 42, 72, 101, 108, 108, 111, 42, 42, 32, 119, 111, 114, 108, 100, 33, 32, 128013, 32, 67, 104, 101, 99, 107, 32, 65, 80, 73, 32, 100, 111, 99, 115, 46, 46, 46>>

\* "Hello world. Check A P I docs,", the result the docstring gives for it
DocExampleResult ==
    <<72, 101, 108, 108, 111, 32, 119, 111, 114, 108, 100, 46, 32, 67, 104, 101, 99, 107, 32, 65, 32, 80, 32, 73, 32, 100, 111, 99, 115, 44>>

\* 'a', '*', '(', '.', space, line feed, a party popper (U+1F389)
PipeAlphabet == {97, 42, 40, 46, 32, 10, 127881}

\* {"(": "a"}, {".": "a"}, {"a": "*", "*": "("}, {"API": "A P I"}
PipeDicts ==
    { <<>>,
      << <<<<40>>, <<97>>>> >>,
      << <<<<46>>, <<97>>>> >>,
      << <<<<97>>, <<42>>>>, <<<<42>>, <<40>>>> >>,
      << <<<<65, 80, 73>>, <<65, 32, 80, 32, 73>>>> >>,
      DEFAULT_REPLACEMENTS }

InitPipeline ==
    /\ text \in TextsOver(PipeAlphabet, MaxPipeLen) \cup {DocExample}
    /\ remove_emoji \in BOOLEAN
    /\ remove_md \in BOOLEAN
    /\ remove_brackets_quotes \in BOOLEAN
    /\ custom_replacements \in {None} \cup {Dict(items) : items \in PipeDicts}
    /\ normalize_pause \in BOOLEAN
    /\ Ready

SpecPipeline == InitPipeline /\ [][CallPreprocessForTts]_vars


----------------------------------------------------------------------------
(* Vocabulary of the properties *)

\* The indices of s that hold character c
Where(s, c) == {k \in 1..Len(s) : s[k] = c}

\* s without the characters at the indices in drop
Without(s, drop) ==
    LET keep == {k \in 1..Len(s) : k \notin drop}
        Nth(n) == CHOOSE k \in keep : Cardinality({m \in keep : m < k}) = n - 1
    IN  [n \in 1..Cardinality(keep) |-> s[Nth(n)]]

\* sub occurs in s
Occurs(s, sub) == \E i \in 1..Len(s) : IsAt(s, i, sub)

\* s[i..j] is the only run of emoji-range characters in s, and is maximal
OnlyEmojiRun(s, i, j) ==
    /\ 1 <= i /\ i <= j /\ j <= Len(s)
    /\ \A k \in 1..Len(s) : IsEmoji(s[k]) <=> k \in i..j

----------------------------------------------------------------------------
(* C1 *)

StageOrder ==
    <<"remove_emojis", "remove_markdown", "remove_brackets_and_quotes",
      "apply_custom_replacements", "normalize_pauses">>

StageEnabled(stage) ==
    CASE stage = "remove_emojis" -> remove_emoji
      [] stage = "remove_markdown" -> remove_md
      [] stage = "remove_brackets_and_quotes" -> remove_brackets_quotes
      [] stage = "apply_custom_replacements" ->
            custom_replacements.present /\ custom_replacements.items # <<>>
      [] stage = "normalize_pauses" -> normalize_pause

StageApplied(stage, s) ==
    CASE stage = "remove_emojis" -> remove_emojis(s)
      [] stage = "remove_markdown" -> remove_markdown(s)
      [] stage = "remove_brackets_and_quotes" -> remove_brackets_and_quotes(s)
      [] stage = "apply_custom_replacements" ->
            apply_custom_replacements(s, custom_replacements)
      [] stage = "normalize_pauses" -> normalize_pauses(s)

\* The text after the first n stages of StageOrder, a disabled stage passing
\* its input through
RECURSIVE AfterStages(_)
AfterStages(n) ==
    IF n = 0 THEN text
    ELSE Value({IF StageEnabled(StageOrder[n])
                THEN StageApplied(StageOrder[n], t) ELSE t :
                   t \in {AfterStages(n - 1)}})

\* C1: for every text, every combination of the four flags and every
\* custom_replacements (absent, empty, non-empty), preprocess_for_tts returns
\* the result of the enabled stages applied in the order remove_emojis,
\* remove_markdown, remove_brackets_and_quotes, apply_custom_replacements,
\* normalize_pauses, each on the output of the previous enabled one.
C1_FixedStageOrder ==
    pc = "preprocess_for_tts" => result = AfterStages(Len(StageOrder))

\* "*(*" with only the markdown and the bracket stage enabled: markdown first
\* leaves "(" for the bracket stage, the other order would leave "**"
C1_Witness ==
    /\ pc = "preprocess_for_tts"
    /\ text = <<42, 40, 42>>
    /\ ~remove_emoji /\ remove_md /\ remove_brackets_quotes /\ ~normalize_pause
    /\ ~custom_replacements.present
    /\ result = <<>>
    /\ remove_markdown(remove_brackets_and_quotes(text)) = <<42, 42>>

----------------------------------------------------------------------------
(* C2 *)

\* C2: with the flags at their defaults and custom_replacements =
\* {"API": "A P I"}, preprocess_for_tts turns the docstring's example text
\* into 'Hello world. Check A P I docs,'.
C2_DocstringExample ==
    ( /\ pc = "preprocess_for_tts"
      /\ text = DocExample
      /\ remove_emoji /\ remove_md /\ remove_brackets_quotes /\ normalize_pause
      /\ custom_replacements = Dict(<< <<<<65, 80, 73>>, <<65, 32, 80, 32, 73>>>> >>) )
    => result = DocExampleResult

----------------------------------------------------------------------------
(* C3, C4, C9 *)

\* C3: in a text whose only emoji run s[i..j], followed by the non-newline
\* whitespace s[j+1..w], stands right before a line feed and is not preceded
\* by one of . ! ? , ; : (or starts the text), remove_emojis puts exactly one
\* period in place of the run and that whitespace, and leaves the rest.
C3_PeriodReplacesRun ==
    pc = "remove_emojis" =>
        \A i \in 1..Len(text), j \in 1..Len(text), w \in 1..Len(text) :
            ( /\ OnlyEmojiRun(text, i, j)
              /\ j <= w /\ w < Len(text)
              /\ \A k \in (j + 1)..w : IsSpace(text[k]) /\ text[k] # LF
              /\ text[w + 1] = LF
              /\ (i = 1 \/ text[i - 1] \notin Punctuation) )
            => result = SubSeq(text, 1, i - 1) \o <<PERIOD>>
                          \o SubSeq(text, w + 1, Len(text))

\* C4: in a text whose only emoji run s[i..j] is preceded by one of
\* . ! ? , ; :, remove_emojis inserts no period: the result is the text with
\* the characters of the run removed, whatever the run's length and whatever
\* follows it.
C4_NoPeriodAfterPunctuation ==
    pc = "remove_emojis" =>
        \A i \in 2..Len(text), j \in 2..Len(text) :
            (OnlyEmojiRun(text, i, j) /\ text[i - 1] \in Punctuation)
            => result = SubSeq(text, 1, i - 1) \o SubSeq(text, j + 1, Len(text))

\* C9: remove_emojis never removes a line break: its result has as many line
\* feeds as its input.
C9_LineFeedsKept ==
    pc = "remove_emojis" =>
        Cardinality(Where(result, LF)) = Cardinality(Where(text, LF))

----------------------------------------------------------------------------
(* C5 *)

\* The characters C5 lists: ( ) [ ] { } < >, the ASCII double quote, U+201C,
\* U+201D, the ASCII apostrophe, U+2018, U+2019, the backtick, U+00AB, U+00BB
ListedDelimiters ==
    {40, 41, 91, 93, 123, 125, 60, 62, 34, 8220, 8221, 39, 8216, 8217, 96,
     171, 187}

\* C5: remove_brackets_and_quotes returns its input with exactly the listed
\* brackets and quotation marks deleted, the typographic quotes among them,
\* and every other character kept in order.
C5_ListedDelimitersDeleted ==
    pc = "remove_brackets_and_quotes" =>
        result = Without(text, {k \in 1..Len(text) : text[k] \in ListedDelimiters})

----------------------------------------------------------------------------
(* C6 *)

\* The replacements of the first n pairs of items, one key after the other:
\* the text the n-th key is looked for in is the result of the keys before it
RECURSIVE Chained(_, _, _)
Chained(s, items, n) ==
    IF n = 0 THEN s
    ELSE Value({str_replace(t, items[n][1], items[n][2]) :
                   t \in {Chained(s, items, n - 1)}})

\* C6: apply_custom_replacements replaces the keys one at a time in the
\* mapping's enumeration order, each over the whole text produced by the keys
\* before it, and never looks again for an earlier key; an absent or empty
\* mapping returns the text unchanged.
C6_KeysInEnumerationOrder ==
    pc = "apply_custom_replacements" =>
        /\ result = Chained(text, custom_replacements.items,
                            Len(custom_replacements.items))
        /\ (~custom_replacements.present \/ custom_replacements.items = <<>>)
              => result = text

\* {"A": "B", "B": "C"} turns "A" into "C"
C6_Witness ==
    /\ pc = "apply_custom_replacements"
    /\ text = <<65>>
    /\ custom_replacements = Dict(<< <<<<65>>, <<66>>>>, <<<<66>>, <<67>>>> >>)
    /\ result = <<67>>

----------------------------------------------------------------------------
(* C7 *)

\* C7: the result of normalize_pauses never contains "...", holds no
\* whitespace but single spaces, each between two characters that are not
\* whitespace, and so neither starts nor ends with whitespace.
C7_PausesNormalized ==
    pc = "normalize_pauses" =>
        /\ ~Occurs(result, <<PERIOD, PERIOD, PERIOD>>)
        /\ \A k \in 1..Len(result) :
              IsSpace(result[k]) =>
                  /\ result[k] = SPACE
                  /\ 1 < k /\ k < Len(result)
                  /\ ~IsSpace(result[k - 1])
                  /\ ~IsSpace(result[k + 1])

\* "Wait...   done" becomes "Wait, done"
C7_Witness ==
    /\ pc = "normalize_pauses"
    /\ text = PauseExample
    /\ result = <<87, 97, 105, 116, 44, 32, 100, 111, 110, 101>>

----------------------------------------------------------------------------
(* C8 *)

\* C8: with the four flags false and custom_replacements absent or empty,
\* preprocess_for_tts returns its input unchanged and logs nothing; the
\* DEFAULT_REPLACEMENTS table is not applied.
C8_AllDisabledIsIdentity ==
    ( /\ pc = "preprocess_for_tts"
      /\ ~remove_emoji /\ ~remove_md /\ ~remove_brackets_quotes
      /\ ~normalize_pause
      /\ (~custom_replacements.present \/ custom_replacements.items = <<>>) )
    => (result = text /\ ~logged)

\* The docstring's example, which holds the key "API" of DEFAULT_REPLACEMENTS
\* and something for every stage to change, passes through unchanged
C8_Witness ==
    /\ pc = "preprocess_for_tts"
    /\ ~remove_emoji /\ ~remove_md /\ ~remove_brackets_quotes
    /\ ~normalize_pause
    /\ ~custom_replacements.present
    /\ text = DocExample
    /\ result = DocExample
    /\ ~logged
    /\ apply_custom_replacements(text, Dict(DEFAULT_REPLACEMENTS)) # text

----------------------------------------------------------------------------
(* C10 *)

\* The matches of the italic rule in the text it receives from the bold rule
ItalicInput == re_sub(MarkdownRules[1], text)
ItalicMatches == finditer(MarkdownRules[2], ItalicInput)

\* C10 as stated: no asterisk the italic rule removes is adjacent to another
\* asterisk in the text the rule receives.
C10_NoAdjacentAsterisk ==
    pc = "remove_markdown" =>
        \A m \in ItalicMatches : \A k \in {m[1], m[2]} :
            /\ (k > 1 => ItalicInput[k - 1] # ASTERISK)
            /\ (k < Len(ItalicInput) => ItalicInput[k + 1] # ASTERISK)

\* C10 amended: the italic rule runs on the output of the bold rule and
\* removes asterisks in pairs that enclose a non-empty span without an
\* asterisk, nothing else: the neighbour of a removed asterisk inside its span
\* is never an asterisk (the neighbour outside may be one).
C10_SpanSideNotAsterisk ==
    pc = "remove_markdown" =>
        /\ \A m \in ItalicMatches :
              /\ m[1] + 2 <= m[2]
              /\ ItalicInput[m[1]] = ASTERISK /\ ItalicInput[m[2]] = ASTERISK
              /\ \A k \in (m[1] + 1)..(m[2] - 1) : ItalicInput[k] # ASTERISK
        /\ re_sub(MarkdownRules[2], ItalicInput)
              = Without(ItalicInput, UNION {{m[1], m[2]} : m \in ItalicMatches})

\* "**a*": the bold rule leaves it alone, the italic rule takes "*a*" out of
\* it and strips the second asterisk of the pair
C10_Witness ==
    /\ pc = "remove_markdown"
    /\ text = <<42, 42, 97, 42>>
    /\ ItalicInput = text
    /\ ItalicMatches = {<<2, 4>>}
    /\ result = <<42, 97>>

====
